---- MODULE Spec2Model ----
(***************************************************************************)
(* Model of bot.py: a Telegram bot that issues time-limited keys.  The     *)
(* persisted store is the JSON file data.json; every handler loads the     *)
(* whole snapshot, changes it in memory and writes it back.  Handlers are  *)
(* asyncio coroutines: they run without interruption between two awaits,   *)
(* so each action below is one run of a handler from one await to the next.*)
(***************************************************************************)
EXTENDS Integers, Sequences, FiniteSets, TLC

\* ------------------------------------------------------------------ bounds
\* number of concurrently running handler coroutines
NumProcs == 2
\* number of Telegram users sending requests
NumUsers == 2
\* number of distinct values the random source is seen to return
NumTokens == 2
\* number of distinct values the random source is seen to return for a key id
NumIds == 1
\* the clock stops advancing here (time unit: one day)
MaxNow == 31
\* the clock advances by this much at a time
TickDays == 31
\* number of external events (requests received, clock advances) in one run
MaxEvents == 4
\* largest manual_limit given to calculate_limit as an input
MaxManual == 3

\* ------------------------------------------------------- program constants
KEYS_PER_CHAT == 3
\* timedelta(days=30)
KeyTTL == 30
\* ADMINS, parsed from the environment at import
ADMINS == {1}

Procs == 1..NumProcs
UserIds == 1..NumUsers
Tokens == 1..NumTokens
Ids == 1..NumIds
\* message.from_user.username: user 1 is seen under two names, one of them
\* the name of the other users
Usernames(uid) == IF uid = 1 THEN {"ann", "bob"} ELSE {"bob"}
\* a granted ChatMember status, or the failure of bot.get_chat_member
ChatStatuses == {"creator", "administrator", "member", "restricted", "left", "kicked"}
ChatResults == ChatStatuses \cup {"error"}
\* the answers the handler runs go through, one for each path of the try
\* block: a status of the list, a status outside it, an exception
\* (calculate_limit is applied to every status in CalcSpec)
MemberAnswers == {"member", "left", "error"}

\* Python's None for manual_limit is the empty tuple, a set value m is <<m>>
None == <<>>
Some(m) == <<m>>

\* --------------------------------------------------------------- strings
\* a Python string is a sequence of one-character strings
Digit(d) == CASE d = 0 -> "0" [] d = 1 -> "1" [] d = 2 -> "2" [] d = 3 -> "3"
              [] d = 4 -> "4" [] d = 5 -> "5" [] d = 6 -> "6" [] d = 7 -> "7"
              [] d = 8 -> "8" [] d = 9 -> "9"

RECURSIVE Str(_)
\* str(n) for an integer n >= 0
Str(n) == IF n < 10 THEN <<Digit(n)>> ELSE Str(n \div 10) \o <<Digit(n % 10)>>

DigitVal(c) == CHOOSE d \in 0..9 : Digit(d) = c

RECURSIVE ParseInt(_)
\* int(s) for a string of decimal digits
ParseInt(s) ==
    IF Len(s) = 1 THEN DigitVal(s[1])
    ELSE 10 * ParseInt(SubSeq(s, 1, Len(s) - 1)) + DigitVal(s[Len(s)])

\* s.split(sep) for a one-character separator
RECURSIVE Split(_, _)
Split(s, sep) ==
    IF \A i \in 1..Len(s) : s[i] # sep
    THEN <<s>>
    ELSE LET i == CHOOSE k \in 1..Len(s) :
                      s[k] = sep /\ \A j \in 1..(k - 1) : s[j] # sep
         IN  <<SubSeq(s, 1, i - 1)>> \o Split(SubSeq(s, i + 1, Len(s)), sep)

\* int(s) succeeds
IsInt(s) == Len(s) > 0 /\ \A i \in 1..Len(s) : \E d \in 0..9 : Digit(d) = s[i]

VARIABLES
    disk,       \* content of data.json: [users, pending]
    now,        \* wall clock, in days
    CHAT_ID_1,  \* configured community 1, 0 when not configured
    CHAT_ID_2,  \* configured community 2, 0 when not configured
    h,          \* the handler coroutine suspended in each slot
    sent,       \* the last message a handler sent, with the handler's outcome
    events,     \* number of requests received and clock advances so far
    calc,       \* one call of calculate_limit: its inputs and its result
    load,       \* one call of load_data: the file it finds and its result
    fsm         \* the users whose FSM state is AdminState.waiting_for_user_input

vars == <<disk, now, CHAT_ID_1, CHAT_ID_2, h, sent, events, calc, load, fsm>>

\* the configuration read at import, and what only CalcSpec changes
conf == <<CHAT_ID_1, CHAT_ID_2, calc, load>>

\* ------------------------------------------------------------------ store
EmptyData == [users |-> <<>>, pending |-> <<>>]

\* what load_data does with data.json as it finds it.  kind "missing": no
\* file; "removed": the file goes away between os.path.exists and open;
\* "unreadable": open raises another OSError; "undecodable": the bytes are
\* not UTF-8; "not_json": json.load raises JSONDecodeError; "json": json.load
\* returns value
load_file(file) ==
    CASE file.kind \in {"missing", "removed", "not_json"} ->
             [raise |-> "none", value |-> EmptyData]
      [] file.kind = "unreadable" -> [raise |-> "PermissionError", value |-> <<>>]
      [] file.kind = "undecodable" -> [raise |-> "UnicodeDecodeError", value |-> <<>>]
      [] file.kind = "json" -> [raise |-> "none", value |-> file.value]

\* disk is the snapshot save_data wrote last (json.dump), the empty one
\* while data.json does not exist
load_data == load_file([kind |-> "json", value |-> disk]).value

\* ensure_user without the membership test: the record is always assigned
ensure_user_reset(user_id, username, data) ==
    [data EXCEPT !.users = (user_id :>
        [username |-> username, manual_limit |-> None,
         keys_used |-> 0, keys |-> <<>>]) @@ @]

ensure_user(user_id, username, data) ==
    IF user_id \notin DOMAIN data.users
    THEN [data EXCEPT !.users = @ @@ (user_id :>
             [username |-> username, manual_limit |-> None,
              keys_used |-> 0, keys |-> <<>>])]
    ELSE [data EXCEPT !.users[user_id].username = username]

\* ------------------------------------------------------- calculate_limit
\* CheckChat with "creator" left out of the status list
CheckChat_no_creator(chat_id, result, limit) ==
    IF chat_id # 0 /\ result \in {"member", "administrator"}
    THEN limit + KEYS_PER_CHAT
    ELSE limit

\* one "if CHAT_ID: try ... except" block: the limit after the check
CheckChat(chat_id, result, limit) ==
    IF chat_id # 0 /\ result \in {"member", "administrator", "creator"}
    THEN limit + KEYS_PER_CHAT
    ELSE limit

\* the trial entitlement when no chat gave a bonus
BaseLimit(limit) == IF limit = 0 THEN 1 ELSE limit

\* calculate_limit testing "if user_data.get('manual_limit'):", so that a
\* manual limit of 0 counts as unset
calculate_limit_truthy(user_data, result1, result2) ==
    IF user_data.manual_limit # None /\ user_data.manual_limit[1] # 0
    THEN user_data.manual_limit[1]
    ELSE IF CheckChat(CHAT_ID_2, result2, CheckChat(CHAT_ID_1, result1, 0)) = 0
         THEN 1
         ELSE CheckChat(CHAT_ID_2, result2, CheckChat(CHAT_ID_1, result1, 0))

\* the whole function, given what the two membership checks answer
calculate_limit(user_data, result1, result2) ==
    IF user_data.manual_limit # None
    THEN user_data.manual_limit[1]
    ELSE BaseLimit(CheckChat(CHAT_ID_2, result2, CheckChat(CHAT_ID_1, result1, 0)))

\* where calculate_limit first suspends: "ret" when it returns without await
FirstAwait(user_data) ==
    IF user_data.manual_limit # None THEN "ret"
    ELSE IF CHAT_ID_1 # 0 THEN "chat1"
    ELSE IF CHAT_ID_2 # 0 THEN "chat2"
    ELSE "ret"

\* f"KVN-{secrets.token_hex(4).upper()}" for the random draw r
generate_key_string(r) == <<"KVN-", r>>

\* secrets.token_hex(3).upper() for the random draw r
key_id(r) == <<"ID-", r>>

\* ------------------------------------------------------------ get_key_handler
\* LimitReached testing "used > limit"
LimitReached_strict(used, limit) == used > limit

\* "if used >= limit"
LimitReached(used, limit) == used >= limit

\* the dict built for a new key at time t from the two random draws
KeyObject(t, r1, r2) ==
    [id |-> key_id(r2), key |-> generate_key_string(r1),
     valid_until |-> t + KeyTTL, created_at |-> t]

\* AppendKey without the update of keys_used
AppendKey_stale(user_record, key_obj) ==
    [user_record EXCEPT !.keys = Append(@, key_obj)]

\* AppendKey assigning the list instead of appending to it
AppendKey_overwrite(user_record, key_obj) ==
    [user_record EXCEPT !.keys = <<key_obj>>, !.keys_used = 1]

\* user_record["keys"].append(key_obj); user_record["keys_used"] = len(...)
AppendKey(user_record, key_obj) ==
    [user_record EXCEPT !.keys = Append(@, key_obj),
                        !.keys_used = Len(user_record.keys) + 1]

\* get_key_tail calling save_data before the limit test
get_key_tail_save_first(data, user_id_str, limit, t, r1, r2) ==
    LET user_record == data.users[user_id_str]
        used == Len(user_record.keys)
    IN  IF LimitReached(used, limit)
        THEN [save |-> TRUE, data |-> data,
              out |-> [type |-> "LimitExceeded", limit |-> limit, used |-> used]]
        ELSE LET key_obj == KeyObject(t, r1, r2)
                 rec2 == AppendKey(user_record, key_obj)
             IN [save |-> TRUE,
                 data |-> [data EXCEPT !.users[user_id_str] = rec2],
                 out |-> [type |-> "Issued", key |-> key_obj.key,
                          progress |-> Len(rec2.keys), limit |-> limit]]

\* the handler from "user_record = ..." on, once the limit is known:
\* what it saves (save = FALSE: save_data is not called) and what it answers
get_key_tail(data, user_id_str, limit, t, r1, r2) ==
    LET user_record == data.users[user_id_str]
        used == Len(user_record.keys)
    IN  IF LimitReached(used, limit)
        THEN [save |-> FALSE, data |-> data,
              out |-> [type |-> "LimitExceeded", limit |-> limit, used |-> used]]
        ELSE LET key_obj == KeyObject(t, r1, r2)
                 rec2 == AppendKey(user_record, key_obj)
             IN [save |-> TRUE,
                 data |-> [data EXCEPT !.users[user_id_str] = rec2],
                 out |-> [type |-> "Issued", key |-> key_obj.key,
                          progress |-> Len(rec2.keys), limit |-> limit]]

\* ------------------------------------------------------------ my_keys_handler
\* my_keys_report with the comparison turned around
my_keys_report_flipped(keys, current_time) ==
    [i \in 1..Len(keys) |->
        [key |-> keys[i].key, active |-> keys[i].valid_until < current_time]]

\* one line of the answer per stored key, in list order
my_keys_report(keys, current_time) ==
    [i \in 1..Len(keys) |->
        [key |-> keys[i].key, active |-> keys[i].valid_until > current_time]]

\* --------------------------------------------------------------- payments
\* f"pay_{message.from_user.id}_{int(time.time())}"
Comment(uid, t) == <<"p", "a", "y", "_">> \o Str(uid) \o <<"_">> \o Str(t)

\* data["pending"][comment] = {...}: a dict assignment replaces an old entry
PutPending(data, comment, uid, t) ==
    [data EXCEPT !.pending = (comment :>
        [user_id |-> Str(uid), amount |-> "0.5", created_at |-> t,
         status |-> "waiting"]) @@ @]

\* DelPending that forgets the del
DelPending_keep(pending, comment_id) == pending

\* del data["pending"][comment_id]
DelPending(pending, comment_id) ==
    [c \in DOMAIN pending \ {comment_id} |-> pending[c]]

\* the new manual_limit: the old one, or else the calculated limit, plus one
Reward(user_data, limit) ==
    (IF user_data.manual_limit # None THEN user_data.manual_limit[1] ELSE limit) + 1

\* finalize_payment from "data[users][user_id][manual_limit] = ..." on
finalize_tail(data, comment_id, limit) ==
    LET user_id == data.pending[comment_id].user_id
        new_limit == Reward(data.users[user_id], limit)
    IN  [save |-> TRUE,
         data |-> [data EXCEPT !.users[user_id].manual_limit = Some(new_limit),
                               !.pending = DelPending(@, comment_id)],
         out |-> [type |-> "Paid", limit |-> new_limit]]

\* ------------------------------------------------------------ admin limits
\* limits = [1, 8, 16, 100]
LimitButtons == {1, 8, 16, 100}

\* f"set_lim_{target_user_id}_{lim}"
ButtonData(target_user_id, lim) ==
    <<"s", "e", "t", "_", "l", "i", "m", "_">> \o target_user_id \o <<"_">> \o Str(lim)

\* the callback data of the buttons of one keyboard
get_admin_limits_keyboard(target_user_id) ==
    {ButtonData(target_user_id, lim) : lim \in LimitButtons}

\* admin_user_search: the ids the query can resolve to, none when the user is
\* not found.  A digit string is taken as the id; "@name" is looked up by
\* username, the first match in the dict's order wins: the order of the
\* users dict is not kept here, so every match is a possible first one
find_user(query, data) ==
    IF IsInt(query)
    THEN {query} \cap DOMAIN data.users
    ELSE IF Len(query) > 0 /\ query[1] = "@"
    THEN {uid \in DOMAIN data.users : <<data.users[uid].username>> = Tail(query)}
    ELSE {}

\* set_limit_callback: what it saves and what it answers; "ValueError" is the
\* exception of the 3-name unpacking or of int(), which ends the handler
set_limit(actor, payload, data) ==
    IF actor \notin ADMINS
    THEN [save |-> FALSE, data |-> data, out |-> [type |-> "NoRights"]]
    ELSE LET parts == Split(payload, "_")
         IN  IF Len(parts) # 3 \/ ~IsInt(parts[3])
             THEN [save |-> FALSE, data |-> data, out |-> [type |-> "ValueError"]]
             ELSE LET target_id == parts[2]
                      new_limit == ParseInt(parts[3])
                  IN  IF target_id \in DOMAIN data.users
                      THEN [save |-> TRUE,
                            data |-> [data EXCEPT
                                !.users[target_id].manual_limit = Some(new_limit)],
                            out |-> [type |-> "LimitSet", target |-> target_id,
                                     limit |-> new_limit, raised |-> FALSE]]
                      ELSE [save |-> FALSE, data |-> data,
                            out |-> [type |-> "UserNotFound"]]

\* ------------------------------------------------------------ coroutines
\* a slot holds a handler suspended in bot.get_chat_member (calculate_limit);
\* between two awaits a handler runs alone, so a handler that meets no
\* get_chat_member is one step
Idle == [pc |-> "idle", kind |-> "none", user_id |-> 0,
         data |-> EmptyData, limit |-> 0, comment |-> <<>>]

Suspend(p, kind, uid, comment, data, pc) ==
    [h EXCEPT ![p] = [Idle EXCEPT !.pc = pc, !.kind = kind, !.user_id = uid,
                                  !.comment = comment, !.data = data]]

\* what the handler answers at its end (message.answer, edit_text, or nothing)
Message(kind, uid, comment, out) ==
    [kind |-> kind, user_id |-> uid, comment |-> comment, out |-> out]

NoMessage == Message("none", 0, <<>>, [type |-> "none"])

\* a new request reaches the dispatcher, which starts its handler in slot p,
\* the first free one (the slots are interchangeable)
Receive(p) ==
    /\ h[p].pc = "idle"
    /\ \A q \in 1..(p - 1) : h[q].pc # "idle"
    /\ events < MaxEvents
    /\ events' = events + 1

ConfigOK ==
    /\ CHAT_ID_1 \in {0, 101}
    /\ CHAT_ID_2 \in {0, 102}

NoCalc == [user_data |-> [username |-> "", manual_limit |-> None,
                          keys_used |-> 0, keys |-> <<>>],
           result1 |-> "error", result2 |-> "error", ret |-> None]

\* data.json does not exist yet, no handler runs
Start ==
    /\ disk = EmptyData
    /\ now = 0
    /\ ConfigOK
    /\ h = [p \in Procs |-> Idle]
    /\ sent = NoMessage
    /\ events = 0
    /\ fsm = {}

NoLoad == [file |-> [kind |-> "missing", value |-> <<>>], ret |-> None,
           request |-> "none", outcome |-> "none"]

Init ==
    /\ Start
    /\ calc = NoCalc
    /\ load = NoLoad

\* time passes
Tick ==
    /\ now + TickDays <= MaxNow
    /\ now' = now + TickDays
    /\ events < MaxEvents
    /\ events' = events + 1
    /\ UNCHANGED <<disk, conf, h, sent, fsm>>

\* /start
start_cmd(p, uid, username) ==
    /\ Receive(p)
    /\ disk' = ensure_user(Str(uid), username, load_data)
    /\ sent' = Message("start", uid, <<>>, [type |-> "Menu", is_admin |-> uid \in ADMINS])
    /\ UNCHANGED <<now, conf, h, fsm>>

\* the values the random source can return where the handler reads it: it is
\* read after the limit test only, so a refusing handler draws nothing
Draws(values, data, uid, limit) ==
    IF LimitReached(Len(data.users[Str(uid)].keys), limit)
    THEN {CHOOSE r \in values : TRUE}
    ELSE values

\* get_key_handler after calculate_limit has returned limit
GetKeyResume(p, data, uid, limit) ==
    \E r1 \in Draws(Tokens, data, uid, limit), r2 \in Draws(Ids, data, uid, limit) :
        LET res == get_key_tail(data, Str(uid), limit, now, r1, r2)
        IN  /\ disk' = IF res.save THEN res.data ELSE disk
            /\ sent' = Message("get_key", uid, <<>>, res.out)
            /\ h' = [h EXCEPT ![p] = Idle]

\* the answer out, followed by a notification that is not inside a try:
\* raised says that its exception left the handler
Notified(out, ok) == [type |-> out.type, limit |-> out.limit, raised |-> ~ok]

\* finalize_payment after the baseline limit is known; message.edit_text or
\* bot.send_message after save_data succeeds (ok) or raises
FinalizeResume(p, data, comment_id, limit) ==
    LET res == finalize_tail(data, comment_id, limit)
    IN  /\ disk' = res.data
        /\ \E ok \in BOOLEAN :
               sent' = Message("finalize", ParseInt(data.pending[comment_id].user_id),
                               comment_id, Notified(res.out, ok))
        /\ h' = [h EXCEPT ![p] = Idle]

\* the caller of calculate_limit goes on
Resume(p, limit) ==
    IF h[p].kind = "get_key"
    THEN GetKeyResume(p, h[p].data, h[p].user_id, limit)
    ELSE FinalizeResume(p, h[p].data, h[p].comment, limit)

\* "Получить ключ": up to the first await
get_key_handler(p, uid, username) ==
    /\ Receive(p)
    /\ LET data == ensure_user(Str(uid), username, load_data)
           user_data == data.users[Str(uid)]
       IN  IF FirstAwait(user_data) = "ret"
           THEN GetKeyResume(p, data, uid,
                             calculate_limit(user_data, "error", "error"))
           ELSE /\ h' = Suspend(p, "get_key", uid, <<>>, data, FirstAwait(user_data))
                /\ UNCHANGED <<disk, sent>>
    /\ UNCHANGED <<now, conf, fsm>>

\* bot.get_chat_member(CHAT_ID_1) answers or raises
chat_member_1(p, result) ==
    /\ h[p].pc = "chat1"
    /\ UNCHANGED events
    /\ LET limit == CheckChat(CHAT_ID_1, result, h[p].limit)
       IN  IF CHAT_ID_2 # 0
           THEN /\ h' = [h EXCEPT ![p].pc = "chat2", ![p].limit = limit]
                /\ UNCHANGED <<disk, sent>>
           ELSE Resume(p, BaseLimit(limit))
    /\ UNCHANGED <<now, conf, fsm>>

\* bot.get_chat_member(CHAT_ID_2) answers or raises
chat_member_2(p, result) ==
    /\ h[p].pc = "chat2"
    /\ UNCHANGED events
    /\ Resume(p, BaseLimit(CheckChat(CHAT_ID_2, result, h[p].limit)))
    /\ UNCHANGED <<now, conf, fsm>>

\* "Мои КВН": reads, answers, saves nothing
my_keys_handler(p, uid, username) ==
    /\ Receive(p)
    /\ LET data == ensure_user(Str(uid), username, load_data)
           keys == data.users[Str(uid)].keys
       IN  sent' = Message("my_keys", uid, <<>>,
                      IF keys = <<>> THEN [type |-> "NoKeys"]
                      ELSE [type |-> "Keys", lines |-> my_keys_report(keys, now)])
    /\ UNCHANGED <<disk, now, conf, h, fsm>>

\* "Купить КВН"; the handler is registered after admin_user_search, which
\* takes every message of a user in the waiting state that no earlier
\* handler matched
buy_key_handler(p, uid) ==
    /\ uid \notin fsm
    /\ Receive(p)
    /\ LET comment == Comment(uid, now)
           data == PutPending(load_data, comment, uid, now)
       IN  /\ disk' = data
           /\ sent' = Message("buy", uid, comment, [type |-> "Invoice"])
    /\ UNCHANGED <<now, conf, h, fsm>>

\* finalize_payment(comment_id): up to the first await
finalize_payment(p, comment_id) ==
    /\ Receive(p)
    /\ LET data == load_data
       IN  IF comment_id \notin DOMAIN data.pending
           THEN /\ sent' = Message("finalize", 0, comment_id, [type |-> "NotFound"])
                /\ UNCHANGED <<disk, h>>
           ELSE LET user_id == data.pending[comment_id].user_id
                IN  IF user_id \notin DOMAIN data.users
                    THEN /\ sent' = Message("finalize", ParseInt(user_id), comment_id,
                                            [type |-> "NoUser"])
                         /\ UNCHANGED <<disk, h>>
                    ELSE IF FirstAwait(data.users[user_id]) = "ret"
                    THEN FinalizeResume(p, data, comment_id,
                             calculate_limit(data.users[user_id], "error", "error"))
                    ELSE /\ h' = Suspend(p, "finalize", ParseInt(user_id), comment_id,
                                         data, FirstAwait(data.users[user_id]))
                         /\ UNCHANGED <<disk, sent>>
    /\ UNCHANGED <<now, conf, fsm>>

\* "Админ-панель"
admin_panel_handler(p, uid) ==
    /\ Receive(p)
    /\ IF uid \notin ADMINS
       THEN /\ sent' = Message("panel", uid, <<>>, [type |-> "Ignored"])
            /\ UNCHANGED fsm
       ELSE /\ sent' = Message("panel", uid, <<>>, [type |-> "AskUser"])
            /\ fsm' = fsm \cup {uid}
    /\ UNCHANGED <<disk, now, conf, h>>

\* a message of a user in the waiting state: the search by id or @username
admin_user_search(p, uid, query) ==
    /\ uid \in fsm
    /\ Receive(p)
    /\ IF uid \notin ADMINS
       THEN /\ sent' = Message("search", uid, <<>>, [type |-> "Ignored"])
            /\ UNCHANGED fsm
       ELSE IF find_user(query, load_data) = {}
       THEN /\ sent' = Message("search", uid, <<>>, [type |-> "UserNotFound"])
            /\ UNCHANGED fsm
       ELSE /\ \E target_id \in find_user(query, load_data) :
                  sent' = Message("search", uid, <<>>,
                                  [type |-> "Found", target |-> target_id,
                                   keyboard |-> get_admin_limits_keyboard(target_id)])
            /\ fsm' = fsm \ {uid}
    /\ UNCHANGED <<disk, now, conf, h>>

\* set_limit_callback: a press of the button with callback data `payload`;
\* after save_data, callback.message.edit_text succeeds (ok) or raises, and
\* what bot.send_message raises after it is swallowed by "except: pass"
set_limit_callback(p, actor, payload) ==
    /\ Receive(p)
    /\ LET res == set_limit(actor, payload, load_data)
       IN  /\ disk' = IF res.save THEN res.data ELSE disk
           /\ IF res.out.type = "LimitSet"
              THEN \E ok \in BOOLEAN :
                      sent' = Message("set_lim", actor, <<>>,
                                      [res.out EXCEPT !.raised = ~ok])
              ELSE sent' = Message("set_lim", actor, <<>>, res.out)
    /\ UNCHANGED <<now, conf, h, fsm>>

\* every reference buy_key_handler can build within the clock's range
Comments == {Comment(uid, t) : uid \in UserIds, t \in {n \in 0..MaxNow : n % TickDays = 0}}

\* the callback data of every button get_admin_limits_keyboard can build
Payloads == {ButtonData(Str(uid), lim) : uid \in UserIds, lim \in LimitButtons}

\* message.text.strip() after "Админ-панель": an id, stored or not, a
\* username after "@" (a name is one token), or neither
Queries == {Str(2), Str(NumUsers + 1), <<"@", "bob">>, <<"@", "ann">>, <<"bob">>}

Step(p) ==
    \/ \E uid \in UserIds : \E username \in Usernames(uid) : start_cmd(p, uid, username)
    \/ \E uid \in UserIds : \E username \in Usernames(uid) :
           get_key_handler(p, uid, username)
    \/ \E result \in MemberAnswers : chat_member_1(p, result)
    \/ \E result \in MemberAnswers : chat_member_2(p, result)
    \/ \E uid \in UserIds : \E username \in Usernames(uid) : my_keys_handler(p, uid, username)
    \/ \E uid \in UserIds : buy_key_handler(p, uid)
    \/ \E comment_id \in Comments : finalize_payment(p, comment_id)
    \/ \E actor \in UserIds, payload \in Payloads : set_limit_callback(p, actor, payload)
    \/ \E uid \in UserIds : admin_panel_handler(p, uid)
    \/ \E uid \in UserIds, query \in Queries : admin_user_search(p, uid, query)

\* the dispatcher runs the handlers as concurrent tasks
Next ==
    \/ \E p \in Procs : Step(p)
    \/ Tick

Spec == Init /\ [][Next]_vars

\* one request at a time: the next one arrives after the handler has ended
SeqNext ==
    \/ Step(1)
    \/ Tick

SeqSpec == Init /\ [][SeqNext]_vars

\* ----------------------------------------------- calculate_limit on its own
CalcInputs ==
    [user_data : [username : {"ann"},
                  manual_limit : {None} \cup {Some(m) : m \in -1..MaxManual},
                  keys_used : {0}, keys : {<<>>}],
     result1 : ChatResults, result2 : ChatResults, ret : {None}]

CalcInit ==
    /\ Start
    /\ calc \in CalcInputs
    /\ load = NoLoad

CalcApply ==
    /\ calc.ret = None
    /\ calc' = [calc EXCEPT !.ret =
                   Some(calculate_limit(calc.user_data, calc.result1, calc.result2))]
    /\ UNCHANGED <<disk, now, CHAT_ID_1, CHAT_ID_2, h, sent, events, load, fsm>>

CalcNext == CalcApply

CalcSpec == CalcInit /\ [][CalcNext]_vars

\* ------------------------------------------------------ load_data on its own
\* a stored user record, as ensure_user makes it
SomeUser == [username |-> "ann", manual_limit |-> None, keys_used |-> 0, keys |-> <<>>]

\* JSON objects data.json can hold: {}, one of the two maps alone, snapshots
JsonValues ==
    {<<>>, [users |-> <<>>], [pending |-> <<>>], EmptyData,
     [users |-> (Str(1) :> SomeUser), pending |-> <<>>],
     [users |-> (Str(1) :> SomeUser)]}

Files ==
    {[kind |-> k, value |-> <<>>] :
        k \in {"missing", "removed", "unreadable", "undecodable", "not_json"}}
    \cup {[kind |-> "json", value |-> v] : v \in JsonValues}

\* the first subscript a handler applies to the loaded snapshot
FirstKey(request) ==
    IF request \in {"buy", "finalize"} THEN "pending" ELSE "users"

Requests == {"start", "get_key", "my_keys", "buy", "finalize"}

LoadInit ==
    /\ Start
    /\ calc = NoCalc
    /\ load \in [file : Files, ret : {None}, request : {"none"}, outcome : {"none"}]

\* data = load_data()
LoadApply ==
    /\ load.ret = None
    /\ load' = [load EXCEPT !.ret = Some(load_file(load.file))]
    /\ UNCHANGED <<disk, now, CHAT_ID_1, CHAT_ID_2, h, sent, events, calc, fsm>>

\* the handler goes on with what load_data returned: data["users"] in
\* ensure_user, data["pending"] in buy_key_handler and finalize_payment
LoadRequest(request) ==
    /\ load.ret # None
    /\ load.ret[1].raise = "none"
    /\ load.request = "none"
    /\ load' = [load EXCEPT !.request = request,
                            !.outcome = IF FirstKey(request) \in DOMAIN load.ret[1].value
                                        THEN "ok" ELSE "KeyError"]
    /\ UNCHANGED <<disk, now, CHAT_ID_1, CHAT_ID_2, h, sent, events, calc, fsm>>

LoadNext ==
    \/ LoadApply
    \/ \E request \in Requests : LoadRequest(request)

LoadSpec == LoadInit /\ [][LoadNext]_vars

\* ------------------------------------------------------------------ claims
\* a handler ends in this step and sent' is its answer: either a handler that
\* met no await ran from its request to its end, or a suspended one went on
Answered ==
    \/ events' = events + 1 /\ now' = now /\ h' = h
    \/ \E p \in Procs : h[p].pc # "idle" /\ h'[p].pc = "idle"

\* the keys stored for user id string u, none when u has no record
StoredKeys(data, u) == IF u \in DOMAIN data.users THEN data.users[u].keys ELSE <<>>

Granted == {"member", "administrator", "creator"}

\* C3: with manual_limit set to M (0 and negative values included),
\* calculate_limit returns exactly M whatever the two membership checks
\* answer and whichever communities are configured
C3_ManualOverride ==
    (calc.ret # None /\ calc.user_data.manual_limit # None)
        => calc.ret = calc.user_data.manual_limit

C3_Witness ==
    /\ calc.user_data.manual_limit = Some(0)
    /\ calc.ret = Some(0)
    /\ calc.result1 = "member"
    /\ calc.result2 = "error"
    /\ CHAT_ID_1 # 0
    /\ CHAT_ID_2 # 0

\* C4: with no manual_limit, calculate_limit returns 3 for every configured
\* community whose check answers member, administrator or creator (a failed
\* check counts as no membership and leaves the other check in force), and 1
\* when that sum is zero
C4_AutoLimit ==
    (calc.ret # None /\ calc.user_data.manual_limit = None)
        => LET n1 == IF CHAT_ID_1 # 0 /\ calc.result1 \in Granted THEN 1 ELSE 0
               n2 == IF CHAT_ID_2 # 0 /\ calc.result2 \in Granted THEN 1 ELSE 0
           IN  calc.ret = Some(IF n1 + n2 = 0 THEN 1 ELSE 3 * (n1 + n2))

C4_Witness ==
    /\ calc.user_data.manual_limit = None
    /\ CHAT_ID_1 # 0
    /\ CHAT_ID_2 # 0
    /\ calc.result1 = "error"
    /\ calc.result2 = "creator"
    /\ calc.ret = Some(3)

\* C8: no two stored key records, of one user or of two, carry the same
\* credential value
C8_UniqueCredentials ==
    \A u1 \in DOMAIN disk.users, u2 \in DOMAIN disk.users :
        \A i \in 1..Len(disk.users[u1].keys), j \in 1..Len(disk.users[u2].keys) :
            (u1 # u2 \/ i # j) => disk.users[u1].keys[i].key # disk.users[u2].keys[j].key

\* C9: in every persisted state keys_used equals len(keys) for every user
C9_KeysUsed ==
    \A u \in DOMAIN disk.users : disk.users[u].keys_used = Len(disk.users[u].keys)

C9_Witness ==
    \E u \in DOMAIN disk.users :
        /\ disk.users[u].keys_used = 2
        /\ Len(disk.users[u].keys) = 2
        /\ \E p \in Procs : h[p].pc # "idle"

\* this step ends a handler of the given kind
Ends(kind) == Answered /\ sent'.kind = kind

\* C1 as stated: an attempt appends no key when the stored count has reached
\* the limit it computed, and after every attempt, refused ones included,
\* len(keys) is at most that limit
C1_Original ==
    sent.kind = "get_key"
        => /\ sent.out.type = "Issued" => sent.out.progress <= sent.out.limit
           /\ Len(StoredKeys(disk, Str(sent.user_id))) <= sent.out.limit

\* C1 amended: an attempt appends no key when the stored count has reached the
\* limit it computed, and after every attempt that appends a key len(keys) is
\* at most that limit; a refused attempt leaves the keys as they were
C1_LimitEnforced ==
    [][Ends("get_key")
        => LET u == Str(sent'.user_id)
               before == StoredKeys(disk, u)
               after == StoredKeys(disk', u)
               limit == sent'.out.limit
           IN  /\ Len(before) >= limit => after = before
               /\ after # before => Len(after) <= limit]_vars

C1_Witness ==
    /\ sent.kind = "get_key"
    /\ sent.out.type = "Issued"
    /\ sent.out.progress = 2
    /\ Len(StoredKeys(disk, Str(sent.user_id))) = 2
    /\ sent.out.limit = 3

\* C2: with k keys stored and the limit computed as L, a request made while
\* k < L appends exactly one key to the stored list and answers it, and a
\* request made with k = L answers LimitExceeded with limit L and used L
C2_SucceedsUntilLimit ==
    [][Ends("get_key")
        => LET u == Str(sent'.user_id)
               before == StoredKeys(disk, u)
               after == StoredKeys(disk', u)
               k == Len(before)
               L == sent'.out.limit
           IN  /\ k < L => /\ sent'.out.type = "Issued"
                           /\ Len(after) = k + 1
                           /\ SubSeq(after, 1, k) = before
                           /\ after[k + 1].key = sent'.out.key
                           /\ sent'.out.progress = k + 1
               /\ k = L => sent'.out = [type |-> "LimitExceeded", limit |-> L, used |-> L]]_vars

\* limit 1, no key: one success, then LimitExceeded{limit: 1, used: 1}
C2_Witness ==
    /\ sent.kind = "get_key"
    /\ sent.out = [type |-> "LimitExceeded", limit |-> 1, used |-> 1]
    /\ Len(StoredKeys(disk, Str(sent.user_id))) = 1
    /\ events = 2

\* C5: a request that finds used >= limit persists nothing: no step of an
\* issue-key handler other than the one that answers a new key changes the
\* stored snapshot
C5_RefusalWritesNothing ==
    [][(/\ h[1].kind = "get_key" \/ h'[1].kind = "get_key" \/ Ends("get_key")
        /\ ~(Ends("get_key") /\ sent'.out.type = "Issued"))
        => disk' = disk]_vars

\* a refusal of a user who is stored under another name than the one the
\* refused request carried
C5_Witness ==
    /\ sent.kind = "get_key"
    /\ sent.out.type = "LimitExceeded"
    /\ sent.user_id = 1
    /\ sent.out.used = 1
    /\ \E u \in DOMAIN disk.users : disk.pending # <<>> /\ disk.users[u].username = "ann"

\* the limits calculate_limit can return for a user without manual_limit
AutoLimits ==
    {calculate_limit([manual_limit |-> None], r1, r2) : r1 \in ChatResults, r2 \in ChatResults}

\* C6: finalize_payment on a pending reference whose payer has a record
\* removes the entry and sets manual_limit to the baseline plus 1 (the old
\* manual_limit, or a limit calculate_limit returns when it was unset); on a
\* reference that is not pending, as in a second call, it changes nothing
C6_ReconcileOnce ==
    [][Ends("finalize")
        => LET c == sent'.comment
           IN  IF c \in DOMAIN disk.pending
               THEN LET u == disk.pending[c].user_id
                    IN  u \in DOMAIN disk.users
                        => /\ sent'.out.type = "Paid"
                           /\ c \notin DOMAIN disk'.pending
                           /\ \E b \in (IF disk.users[u].manual_limit # None
                                        THEN {disk.users[u].manual_limit[1]}
                                        ELSE AutoLimits) :
                                  /\ disk'.users[u].manual_limit = Some(b + 1)
                                  /\ sent'.out.limit = b + 1
               ELSE /\ sent'.out.type = "NotFound"
                    /\ disk' = disk]_vars

\* the second of two calls in a row: the clock never moved, so the payer's
\* manual_limit was set by the reconciliation of this very reference
C6_Witness ==
    /\ sent.kind = "finalize"
    /\ sent.out.type = "NotFound"
    /\ now = 0
    /\ events = 4
    /\ \E uid \in UserIds :
          /\ sent.comment = Comment(uid, 0)
          /\ Str(uid) \in DOMAIN disk.users
          /\ disk.users[Str(uid)].manual_limit = Some(4)
    /\ disk.pending = <<>>

\* C7: finalize_payment on every pending reference made by buy_key_handler
\* succeeds: it removes the entry and stores a manual_limit for the payer
C7_EveryPurchaseReconciles ==
    [][(Ends("finalize") /\ sent'.comment \in DOMAIN disk.pending)
        => LET c == sent'.comment
               u == disk.pending[c].user_id
           IN  /\ c \notin DOMAIN disk'.pending
               /\ u \in DOMAIN disk'.users
               /\ disk'.users[u].manual_limit # None]_vars

\* C10: list-keys answers one line per stored key, in list order, active when
\* valid_until > now and expired when valid_until < now, and leaves the stored
\* snapshot as it was
C10_ListKeys ==
    [][Ends("my_keys")
        => LET keys == StoredKeys(disk, Str(sent'.user_id))
           IN  /\ disk' = disk
               /\ IF keys = <<>>
                  THEN sent'.out.type = "NoKeys"
                  ELSE /\ sent'.out.type = "Keys"
                       /\ Len(sent'.out.lines) = Len(keys)
                       /\ \A i \in 1..Len(keys) :
                             /\ sent'.out.lines[i].key = keys[i].key
                             /\ keys[i].valid_until > now => sent'.out.lines[i].active
                             /\ keys[i].valid_until < now => ~sent'.out.lines[i].active]_vars

\* an answer with an expired key followed by an active one
C10_Witness ==
    /\ sent.kind = "my_keys"
    /\ sent.out.type = "Keys"
    /\ Len(sent.out.lines) = 2
    /\ ~sent.out.lines[1].active
    /\ sent.out.lines[2].active
    /\ disk.users[Str(sent.user_id)].keys[1].valid_until < now

\* C11: when a member of ADMINS presses a button that
\* get_admin_limits_keyboard built for a stored user u and a value L of
\* 1, 8, 16, 100, set_limit_callback persists manual_limit[u] = L
C11_ButtonSetsLimit ==
    [][\A uid \in UserIds, lim \in LimitButtons :
          (/\ Str(uid) \in DOMAIN disk.users
           /\ \E p \in Procs, actor \in ADMINS :
                 set_limit_callback(p, actor, ButtonData(Str(uid), lim)))
          => /\ Str(uid) \in DOMAIN disk'.users
             /\ disk'.users[Str(uid)].manual_limit = Some(lim)]_vars

\* C12: of two interleaved issue-key requests of one user that both start
\* with limit - 1 stored keys at most one issues a key: a request delivers a
\* credential only while fewer keys than its limit are stored for the user,
\* so that the credentials delivered to a user never exceed the limit
C12_AtMostOneIssues ==
    [][(Ends("get_key") /\ sent'.out.type = "Issued")
        => Len(StoredKeys(disk, Str(sent'.user_id))) < sent'.out.limit]_vars

\* C13: of two interleaved finalize_payment calls for one pending reference
\* at most one takes the reconciled branch: no reference is reported as paid
\* by two calls one after the other
C13_ReconcileAtMostOnce ==
    [][(/\ sent.kind = "finalize"
        /\ sent.out.type = "Paid"
        /\ Ends("finalize")
        /\ sent'.out.type = "Paid")
        => sent'.comment # sent.comment]_vars

\* this step is a set-limit or a reconcile that persists manual_limit of u
SetsLimitOf(u) ==
    \/ Ends("finalize") /\ sent'.out.type = "Paid" /\ Str(sent'.user_id) = u
    \/ Ends("set_lim") /\ sent'.out.type = "LimitSet" /\ sent'.out.target = u

\* C14: a persisted manual_limit is not lost: it changes only through a later
\* set-limit or reconcile for that user, never through the save of a request
\* that loaded its snapshot earlier, and it never returns to unset
C14_ManualLimitKept ==
    [][\A u \in DOMAIN disk.users :
          disk.users[u].manual_limit # None
          => /\ u \in DOMAIN disk'.users
             /\ disk'.users[u].manual_limit # None
             /\ disk'.users[u].manual_limit # disk.users[u].manual_limit
                   => SetsLimitOf(u)]_vars

\* data.json holds a snapshot: an object with a users map and a pending map
WellFormed(file) ==
    file.kind = "json" /\ {"users", "pending"} \subseteq DOMAIN file.value

\* C15: load_data never raises, returns the empty default snapshot whenever
\* the file is missing, unreadable or not a well-formed snapshot, and the
\* request that follows finds both a users map and a pending map
C15_LoadFailsClosed ==
    load.ret # None
    => /\ load.ret[1].raise = "none"
       /\ ~WellFormed(load.file) => load.ret[1].value = EmptyData
       /\ load.outcome # "KeyError"

\* C16: buy_key_handler never stores its pending payment under a reference
\* that is already pending: each purchase start adds exactly one new entry
\* with status waiting and leaves every existing entry unchanged
C16_FreshReference ==
    [][Ends("buy")
        => LET c == sent'.comment
           IN  /\ c \notin DOMAIN disk.pending
               /\ DOMAIN disk'.pending = DOMAIN disk.pending \cup {c}
               /\ disk'.pending[c].status = "waiting"
               /\ \A d \in DOMAIN disk.pending : disk'.pending[d] = disk.pending[d]]_vars

\* s is the beginning of t
IsPrefix(s, t) == Len(s) <= Len(t) /\ SubSeq(t, 1, Len(s)) = s

\* C17: a key once persisted in a user's key list stays there, unaltered and
\* in issuance order: every step keeps the stored key list of every user as
\* the beginning of that user's new key list
C17_KeysStay ==
    [][\A u \in DOMAIN disk.users :
          IsPrefix(disk.users[u].keys, StoredKeys(disk', u))]_vars

\* C18: a failure of the notification (sending or editing a message) during
\* set-limit or reconcile never leaves the operation as an uncaught error and
\* never undoes the limit change that was persisted
C18_NotifyFailureSwallowed ==
    [][\A u \in DOMAIN disk'.users :
          SetsLimitOf(u)
          => /\ ~sent'.out.raised
             /\ disk'.users[u].manual_limit = Some(sent'.out.limit)]_vars

\* C19: ensure_user on a stored user id changes only that record's username:
\* its manual_limit, keys and keys_used, every other record and the pending
\* set are unchanged; on an absent id it inserts a record with manual_limit
\* unset, no keys and keys_used 0.  Seen through start_cmd, which saves what
\* ensure_user made of the loaded snapshot
C19_EnsureUserFrame ==
    [][Ends("start")
        => LET u == Str(sent'.user_id)
           IN  /\ disk'.pending = disk.pending
               /\ DOMAIN disk'.users = DOMAIN disk.users \cup {u}
               /\ \A v \in DOMAIN disk.users \ {u} : disk'.users[v] = disk.users[v]
               /\ IF u \in DOMAIN disk.users
                  THEN /\ disk'.users[u].manual_limit = disk.users[u].manual_limit
                       /\ disk'.users[u].keys = disk.users[u].keys
                       /\ disk'.users[u].keys_used = disk.users[u].keys_used
                  ELSE /\ disk'.users[u].manual_limit = None
                       /\ disk'.users[u].keys = <<>>
                       /\ disk'.users[u].keys_used = 0]_vars

\* /start of a user who holds a key and a manual_limit, next to another user
C19_Witness ==
    /\ sent.kind = "start"
    /\ sent.user_id = 1
    /\ disk.users[Str(1)].username = "bob"
    /\ disk.users[Str(1)].manual_limit # None
    /\ Len(disk.users[Str(1)].keys) = 1

\* C20: a set-limit callback or an admin user search of an actor outside
\* ADMINS leaves the persisted store unchanged, and the manual_limit of a user
\* is changed only by a set-limit of a member of ADMINS that names a stored
\* user, or by a reconcile for that user
C20_OnlyAdminsSetLimits ==
    [][/\ ((Ends("set_lim") \/ Ends("search")) /\ sent'.user_id \notin ADMINS)
            => disk' = disk
       /\ \A u \in DOMAIN disk.users \cap DOMAIN disk'.users :
             disk'.users[u].manual_limit # disk.users[u].manual_limit
             => \/ /\ Ends("finalize")
                   /\ sent'.out.type = "Paid"
                   /\ Str(sent'.user_id) = u
                \/ /\ Ends("set_lim")
                   /\ sent'.user_id \in ADMINS
                   /\ sent'.out.type = "LimitSet"
                   /\ sent'.out.target = u]_vars
====
